---- MODULE Spec2Model ----
(***************************************************************************)
(* Model of src/l2i/policy.py: AttNet, PolicyNetwork and PolicyEstimator.  *)
(*                                                                         *)
(* Tensors are modelled by their shape and, per batch row, by the set of   *)
(* input rows and of layers their value is computed from (data flow).      *)
(* The numbers the claims look at (log-probabilities, loss, gradients,     *)
(* Adam moments, flat gather indices) are modelled as numbers: IEEE        *)
(* float32 integers for the indices, finite / infinite / NaN values for    *)
(* the rest.                                                               *)
(***************************************************************************)
EXTENDS Integers, Sequences, FiniteSets, TLC

\* ---------------------------------------------------------------- bounds
MaxB == 2          \* largest batch size of a predict / update call
MaxL == 2          \* largest trip-sequence length
MaxNAct == 3       \* largest configured n_act
MaxForward == 2    \* forward passes per behaviour (caps num_batches_tracked)

\* ------------------------------------------------- constructor arguments
trip_emb == 6
emb_dim == 16
hid_dim == 32
n_ob_space == 3
filter_inner == 64

\* ------------------------------------------------------------- numbers
\* A floating-point value: finite (an integer number of units), +inf, -inf
\* or NaN.
Fin(n) == [k |-> "fin", v |-> n]
NaN == [k |-> "nan", v |-> 0]
PosInf == [k |-> "inf", v |-> 1]
NegInf == [k |-> "inf", v |-> -1]

Sign(n) == IF n > 0 THEN 1 ELSE IF n < 0 THEN -1 ELSE 0

NNeg(a) == IF a.k = "nan" THEN NaN ELSE [k |-> a.k, v |-> -a.v]

NMul(a, b) ==
    IF a.k = "nan" \/ b.k = "nan" THEN NaN
    ELSE IF a.k = "fin" /\ b.k = "fin" THEN Fin(a.v * b.v)
    ELSE IF a.v = 0 \/ b.v = 0 THEN NaN
    ELSE [k |-> "inf", v |-> Sign(a.v) * Sign(b.v)]

NAdd(a, b) ==
    IF a.k = "nan" \/ b.k = "nan" THEN NaN
    ELSE IF a.k = "fin" /\ b.k = "fin" THEN Fin(a.v + b.v)
    ELSE IF a.k = "inf" /\ b.k = "inf" THEN (IF a.v = b.v THEN a ELSE NaN)
    ELSE IF a.k = "inf" THEN a ELSE b

\* ---------------------------------------------- torch_it: float32 values
\* torch_it casts to float32: 24 significand bits, round to nearest, ties
\* to even.
F32Mantissa == 24
F32Exact == 2 ^ F32Mantissa

RECURSIVE UlpFrom(_, _)
UlpFrom(n, u) == IF n \div u < F32Exact THEN u ELSE UlpFrom(n, 2 * u)

RoundMag(n) ==
    LET u == UlpFrom(n, 1)
        q == n \div u
        r == n % u
    IN  IF 2 * r > u \/ (2 * r = u /\ q % 2 = 1) THEN (q + 1) * u ELSE q * u

torch_it(n) == IF n < 0 THEN -RoundMag(-n) ELSE RoundMag(n)

\* ------------------------------------------------ update: the gather step
\* line 108: arange(0, B) * A is int64; adding the float32 actions promotes
\* the sum to float32.  line 109: .long() of an integer-valued float.
FlatIndex(i, A, a) == torch_it(torch_it(i * A) + torch_it(a))

\* line 109: indexing the flattened buffer of length N: indices in
\* -N .. N-1 are accepted (negative ones count from the end), others raise.
IndexInBounds(idx, N) == idx >= -N /\ idx <= N - 1
WrapIndex(idx, N) == IF idx < 0 THEN idx + N ELSE idx

\* reshape(log_probs, (-1,)): flat position k holds entry [k div A, k mod A]
FlatEntry(k, A) == <<k \div A, k % A>>

\* The entry of log_probs that row i reads.
GatherEntry(i, B, A, a) == FlatEntry(WrapIndex(FlatIndex(i, A, a), B * A), A)
GatherOk(i, B, A, a) == IndexInBounds(FlatIndex(i, A, a), B * A)

\* ------------------------------------------------------------ helpers
\* F applied to the value of e, with e evaluated once.
Bind(e, F(_)) == CHOOSE y \in {F(x) : x \in {e}} : TRUE

\* ------------------------------------------------------------- tensors
\* A tensor: its batch size B, channel / feature count C, sequence length
\* L (0 for a 2-D tensor), and its data flow: the layers and inputs its
\* values are computed from (via), and whether the values of a batch row
\* are computed from the inputs of all rows of the batch (mixed) or from
\* those of that row alone.  Axis order is not modelled, so permute is the
\* identity on this record.
Tensor(B, C, L, mixed, via) ==
    [B |-> B, C |-> C, L |-> L, mixed |-> mixed, via |-> via]

\* The input rows that row i (0-based) of x is computed from.
RowDeps(x, i) == IF x.mixed THEN 0..(x.B - 1) ELSE {i}

\* predict lines 96-97: the two inputs of a call
StateTensor(B) == Tensor(B, n_ob_space, 0, FALSE, {"state"})
TripTensor(B, L) == Tensor(B, trip_emb, L, FALSE, {"emb_trip"})

\* Conv1d with kernel size 1 and Linear act on each row and position alone.
Conv1d(tag, out_channels, x) == [x EXCEPT !.C = out_channels, !.via = @ \cup {tag}]
Linear(tag, out_features, x) == [x EXCEPT !.C = out_features, !.via = @ \cup {tag}]
relu(x) == x
softmax(x) == [x EXCEPT !.via = @ \cup {"softmax"}]

\* MultiheadAttention (training mode, dropout 0.1): attends over the L axis
\* of one batch row.
MultiheadAttention(x) == [x EXCEPT !.via = @ \cup {"mha", "dropout"}]

\* x += y
TAdd(x, y) == [x EXCEPT !.mixed = @ \/ y.mixed, !.via = @ \cup y.via]

\* torch.sum(output, 2)
SumOverL(x) == [x EXCEPT !.L = 0]

\* A BatchNorm1d buffer set: the batch counter and the running statistics,
\* the latter kept as the number of batches whose statistics the moving
\* average has absorbed (a rejected batch is counted but not absorbed).
NewBuf == [num_batches_tracked |-> 0, running |-> 0]

\* A forward pass in progress: "ok" or the exception raised, the buffers of
\* the three BatchNorm1d layers, and the current tensor.
Frame(bn, x) == [status |-> "ok", bn |-> bn, out |-> x]

\* BatchNorm1d in training mode (the module is never switched to eval):
\* the counter is incremented, then a batch with a single value per
\* channel is rejected, else every value is normalised with the mean and
\* variance over all rows and positions and the running statistics are
\* updated.
BatchNorm1d(tag, fr0) ==
    Bind(fr0, LAMBDA fr :
        IF fr.status # "ok" THEN fr
        ELSE IF fr.out.B * fr.out.L = 1
        THEN [fr EXCEPT !.status = "ValueError",
                        !.bn[tag].num_batches_tracked = @ + 1]
        ELSE [fr EXCEPT !.bn[tag].num_batches_tracked = @ + 1,
                        !.bn[tag].running = @ + 1,
                        !.out.mixed = @ \/ fr.out.B > 1,
                        !.out.via = @ \cup {tag}])

\* lines 39-41: emb_input
AttNet_emb(fr0) ==
    Bind(fr0, LAMBDA fr :
        BatchNorm1d("emb_bn", [fr EXCEPT !.out = Conv1d("emb", emb_dim, fr.out)]))

\* line 46: the tensor handed to mha_bn
PostAttnInput(mha_output, emb_input) == emb_input

\* lines 44-46: mha_output
AttNet_mha(fr0) ==
    Bind(fr0, LAMBDA fr :
        BatchNorm1d("mha_bn", [fr EXCEPT !.out =
            PostAttnInput(TAdd(MultiheadAttention(fr.out), fr.out), fr.out)]))

\* lines 49-52: output
AttNet_convff(fr0) ==
    Bind(fr0, LAMBDA fr :
        BatchNorm1d("ff_bn", [fr EXCEPT !.out =
            TAdd(Conv1d("outer", emb_dim,
                        relu(Conv1d("inner", filter_inner, fr.out))),
                 fr.out)]))

\* lines 55-56
AttNet_reduce(fr0) ==
    Bind(fr0, LAMBDA fr :
        IF fr.status # "ok" THEN fr ELSE [fr EXCEPT !.out = SumOverL(fr.out)])

\* AttNet.forward, lines 34-56
AttNet_forward(bn, input_) ==
    AttNet_reduce(AttNet_convff(AttNet_mha(AttNet_emb(Frame(bn, input_)))))

\* (variant: the logits layer as wide as n_act)
LogitsWidth_full(n) == n

\* line 71: out_features of the logits layer
LogitsWidth(n) == n - 1

\* torch.cat((state, pooled), dim=1)
Cat(state, pooled) ==
    [state EXCEPT !.C = @ + pooled.C,
                  !.mixed = @ \/ pooled.mixed,
                  !.via = @ \cup pooled.via]

\* PolicyNetwork.forward, lines 73-83
PolicyNetwork_forward(n, bn, state, emb_trip) ==
    Bind(AttNet_forward(bn, emb_trip), LAMBDA a :
        IF a.status # "ok" THEN a
        ELSE IF state.B # a.out.B THEN [a EXCEPT !.status = "RuntimeError"]
        ELSE [a EXCEPT !.out =
                 softmax(Linear("logits", LogitsWidth(n),
                     relu(Linear("hidden", hid_dim, Cat(state, a.out)))))])

\* ---------------------------------------------------------- the estimator
VARIABLES
    n_act,      \* constructor argument of this estimator
    params,     \* learnable Parameters, per parameter group
    grads,      \* the .grad of each parameter group
    optim,      \* Adam's state per parameter group
    bn,         \* buffers of the three BatchNorm1d layers
    ret,        \* arguments and outcome of the latest call
    calls,      \* number of calls made so far, per kind
    g           \* one row of one gather (the gather on its own)

vars == <<n_act, params, grads, optim, bn, ret, calls, g>>

\* Parameter groups: "policy" stands for the layers the loss is computed
\* through (emb, the three BatchNorm1d, inner, outer, hidden, logits), "mha"
\* for the MultiheadAttention weights.
ParamNames == {"policy", "mha"}

NewBn == [emb_bn |-> NewBuf, mha_bn |-> NewBuf, ff_bn |-> NewBuf]

\* Parameters reached by loss.backward(): the attention weights are among
\* them exactly when the attention output flows into the network's output.
InGraph ==
    IF "mha" \in AttNet_forward(NewBn, TripTensor(MaxB, MaxL)).out.via
    THEN {"policy", "mha"} ELSE {"policy"}

NoGrad == [set |-> FALSE, val |-> Fin(0), of |-> {}]
NewAdam == [step |-> 0, exp_avg |-> <<>>, exp_avg_sq |-> <<>>]

NoRet ==
    [op |-> "none", status |-> "ok", Bs |-> 0, Bt |-> 0, L |-> 0,
     shape |-> <<0, 0>>, deps |-> <<>>, via |-> {}, loss |-> Fin(0),
     trace |-> <<>>, advZero |-> FALSE, oob |-> FALSE, lpFinite |-> TRUE,
     k |-> 0]

IdleGather == [B |-> 0, A |-> 0, row |-> 0, act |-> 0, done |-> FALSE,
               ok |-> FALSE, picked |-> <<0, 0>>]

\* PolicyEstimator.__init__, lines 90-93
Init ==
    /\ n_act \in 2..MaxNAct
    /\ params = [p \in ParamNames |-> Fin(0)]
    /\ grads = [p \in ParamNames |-> NoGrad]
    /\ optim = [p \in ParamNames |-> NewAdam]
    /\ bn = NewBn
    /\ ret = NoRet
    /\ calls = [predict |-> 0, update |-> 0, updateOk |-> 0]
    /\ g = IdleGather

\* What a call reports of a forward pass: the shape of its result and the
\* input rows each result row is computed from.
ShapeOf(fwd) == IF fwd.status = "ok" THEN <<fwd.out.B, fwd.out.C>> ELSE <<0, 0>>
DepsOf(fwd) == IF fwd.status = "ok"
               THEN [i \in 1..fwd.out.B |-> RowDeps(fwd.out, i - 1)] ELSE <<>>

\* PolicyEstimator.predict, lines 95-98
predict(Bs, Bt, L) ==
    /\ bn.emb_bn.num_batches_tracked < MaxForward
    /\ \E fwd \in {PolicyNetwork_forward(n_act, bn, StateTensor(Bs), TripTensor(Bt, L))} :
        /\ bn' = fwd.bn
        /\ ret' = [NoRet EXCEPT
                !.op = "predict", !.status = fwd.status,
                !.Bs = Bs, !.Bt = Bt, !.L = L,
                !.shape = ShapeOf(fwd),
                !.deps = DepsOf(fwd),
                !.via = IF fwd.status = "ok" THEN fwd.out.via ELSE {}]
        /\ calls' = [calls EXCEPT !.predict = @ + 1]
        /\ UNCHANGED <<n_act, params, grads, optim, g>>

\* --------------------------------------------------- update: the numbers
AdvVals == {-1, 0, 1}
JVals == {-1, 1}

\* Action values offered to update: the valid ones 0..A-1, one below and
\* one above.
ActVals(A) == -1..A

\* log(predict(...)), line 107, as far as the forward pass can produce it:
\* NaN everywhere once the parameters are NaN; 0 everywhere when there is a
\* single column (softmax of one logit is 1); else finite and negative,
\* or -inf where a probability has underflowed to 0.
LogProbRegular(B, A, theta) ==
    [i \in 1..B |-> [j \in 1..A |->
        IF theta.k # "fin" THEN NaN ELSE IF A = 1 THEN Fin(0) ELSE Fin(-1)]]

LogProbChoices(B, A, theta) ==
    {LogProbRegular(B, A, theta)}
    \cup (IF theta.k = "fin" /\ A > 1
          THEN {[i \in 1..B |-> [j \in 1..A |->
                    IF i = 1 /\ j = 1 THEN NegInf ELSE Fin(-1)]]}
          ELSE {})

AllFinite(lp) == \A i \in DOMAIN lp : \A j \in DOMAIN lp[i] : lp[i][j].k = "fin"

RECURSIVE SumNum(_, _)
SumNum(s, n) == IF n = 0 THEN Fin(0) ELSE NAdd(SumNum(s, n - 1), s[n])

\* line 110: loss = -torch.sum(act_prob * advantages)
LossOf(act_prob, advantages, B) ==
    NNeg(SumNum([i \in 1..B |-> NMul(act_prob[i], Fin(advantages[i]))], B))

RECURSIVE WeightedSum(_, _, _)
WeightedSum(advantages, J, n) ==
    IF n = 0 THEN 0
    ELSE WeightedSum(advantages, J, n - 1) + (-advantages[n]) * J[n]

\* (variant: the advantages are left out of the loss)
BackwardGrad_unweighted(lp, advantages, J, A) ==
    IF ~AllFinite(lp) THEN NaN
    ELSE IF A = 1 THEN Fin(0)
    ELSE Fin(WeightedSum([i \in 1..Len(advantages) |-> 1], J, Len(advantages)))

\* loss.backward(), line 114: d loss / d theta = sum_i (-advantages[i]) * J[i]
\* with J[i] the derivative of the gathered log-probability of row i (0
\* when the single column makes it constant); dividing by a probability
\* of 0 (or a NaN) in log's backward makes the gradient NaN.
BackwardGrad(lp, advantages, J, A) ==
    IF ~AllFinite(lp) THEN NaN
    ELSE IF A = 1 THEN Fin(0)
    ELSE Fin(WeightedSum(advantages, J, Len(advantages)))

\* --------------------------------------------------------------- Adam
\* Adam(self.policy.parameters(), learning_rate), line 93: default betas.
Beta1Num == 9
Beta1Den == 10

\* A moment estimate is kept unrolled, as the list of the values fed to
\* its moving average.  EmaNum(s, Len(s)) is exp_avg scaled by
\* Beta1Den^step.
RECURSIVE EmaNum(_, _)
EmaNum(s, n) ==
    IF n = 0 THEN 0
    ELSE Beta1Num * EmaNum(s, n - 1)
         + (Beta1Den - Beta1Num) * (Beta1Den ^ (n - 1)) * s[n].v

ExpAvg(s) == IF \E i \in 1..Len(s) : s[i].k # "fin" THEN NaN
             ELSE Fin(EmaNum(s, Len(s)))

\* One Adam step on one parameter: theta moves against the sign of the
\* bias-corrected first moment, by one unit of displacement (the divisor
\* sqrt(v) + eps is positive); it stays put exactly when exp_avg is 0.
AdamTheta(theta, m) ==
    IF theta.k # "fin" \/ m.k # "fin" THEN NaN ELSE Fin(theta.v - Sign(m.v))

AdamParam(theta, st, gr) ==
    IF ~gr.set THEN [theta |-> theta, st |-> st]
    ELSE [theta |-> AdamTheta(theta, ExpAvg(Append(st.exp_avg, gr.val))),
          st |-> [step |-> st.step + 1,
                  exp_avg |-> Append(st.exp_avg, gr.val),
                  exp_avg_sq |-> Append(st.exp_avg_sq, NMul(gr.val, gr.val))]]

\* ------------------------------------------- update: lines 112-115
\* e is the estimator: [params, grads, optim] and the list of steps done.
ZeroGrad(e) ==
    [e EXCEPT !.grads = [p \in ParamNames |-> NoGrad],
              !.trace = Append(@, "zero_grad")]

Backward(e, grad, k) ==
    [e EXCEPT !.grads = [p \in ParamNames |->
                 IF p \notin InGraph THEN @[p]
                 ELSE IF @[p].set
                 THEN [set |-> TRUE, val |-> NAdd(@[p].val, grad),
                       of |-> @[p].of \cup {k}]
                 ELSE [set |-> TRUE, val |-> grad, of |-> {k}]],
              !.trace = Append(@, "backward")]

OptimStep(e0) ==
    Bind(e0, LAMBDA e :
        Bind([p \in ParamNames |-> AdamParam(e.params[p], e.optim[p], e.grads[p])],
             LAMBDA r :
                [e EXCEPT !.params = [p \in ParamNames |-> r[p].theta],
                          !.optim = [p \in ParamNames |-> r[p].st],
                          !.trace = Append(@, "step")]))

\* (variant: gradients are not cleared before backpropagation)
CompleteUpdate_accumulate(e, grad, k) == OptimStep(Backward(e, grad, k))

CompleteUpdate(e, grad, k) == OptimStep(Backward(ZeroGrad(e), grad, k))

\* (variant: gradients are cleared on entry, before the forward pass)
UpdateBody_clearFirst(e, fwdStatus, gatherOk, grad, k) ==
    IF fwdStatus # "ok" \/ ~gatherOk
    THEN [e EXCEPT !.grads = [p \in ParamNames |-> NoGrad],
                   !.trace = Append(@, "forward")]
    ELSE CompleteUpdate([e EXCEPT !.trace = Append(@, "forward")], grad, k)

\* update, lines 100-117, on the estimator: a failure of the forward pass
\* (line 107) or of the gather (line 109) leaves before line 113.
UpdateBody(e, fwdStatus, gatherOk, grad, k) ==
    IF fwdStatus # "ok" THEN [e EXCEPT !.trace = Append(@, "forward")]
    ELSE IF ~gatherOk THEN [e EXCEPT !.trace = Append(@, "forward")]
    ELSE CompleteUpdate([e EXCEPT !.trace = Append(@, "forward")], grad, k)

\* lines 108-109 for all rows: do all flat indices fall inside the buffer,
\* and which entry of log_probs does each row read
AllGatherOk(B, A, actions) == \A i \in 1..B : GatherOk(i - 1, B, A, actions[i])
Picked(B, A, actions) == [i \in 1..B |-> GatherEntry(i - 1, B, A, actions[i])]
ActProb(lp, picked, B) == [i \in 1..B |-> lp[picked[i][1] + 1][picked[i][2] + 1]]

\* PolicyEstimator.update, lines 100-117
update(Bs, Bt, L, advantages, actions, lp, J) ==
    /\ bn.emb_bn.num_batches_tracked < MaxForward
    /\ \E fwd \in {PolicyNetwork_forward(n_act, bn, StateTensor(Bs), TripTensor(Bt, L))} :
       \E gatherOk \in {AllGatherOk(Bs, LogitsWidth(n_act), actions)} :
       \E e \in {UpdateBody([params |-> params, grads |-> grads, optim |-> optim,
                             trace |-> <<>>],
                            fwd.status, gatherOk,
                            BackwardGrad(lp, advantages, J, LogitsWidth(n_act)),
                            calls.update + 1)} :
       \E status \in {IF fwd.status # "ok" THEN fwd.status
                      ELSE IF ~gatherOk THEN "IndexError" ELSE "ok"} :
           /\ bn' = fwd.bn
           /\ params' = e.params
           /\ grads' = e.grads
           /\ optim' = e.optim
           /\ ret' = [NoRet EXCEPT
                   !.op = "update", !.status = status,
                   !.Bs = Bs, !.Bt = Bt, !.L = L,
                   !.shape = ShapeOf(fwd),
                   !.loss = IF status = "ok"
                            THEN LossOf(ActProb(lp, Picked(Bs, LogitsWidth(n_act), actions), Bs),
                                        advantages, Bs)
                            ELSE Fin(0),
                   !.trace = e.trace,
                   !.advZero = \A i \in 1..Bs : advantages[i] = 0,
                   !.oob = \E i \in 1..Bs : actions[i] \notin 0..(LogitsWidth(n_act) - 1),
                   !.lpFinite = AllFinite(lp),
                   !.k = calls.update + 1]
           /\ calls' = [calls EXCEPT !.update = @ + 1,
                                     !.updateOk = IF status = "ok" THEN @ + 1 ELSE @]
           /\ UNCHANGED <<n_act, g>>

\* The inputs offered to a call.  The trip batch either matches the state
\* batch or not.  The numeric inputs of update are sampled in two slices:
\* every advantage vector (all rows equal, or of mixed sign) with every
\* forward outcome and the valid action 0 on all rows; and every action
\* vector (one row ranging over ActVals, the others 0) with advantage 1
\* and regular log-probabilities.  A call whose forward pass fails gets one
\* numeric input, since line 107 raises before any of them is read.
TripBatches(Bs) == {Bs, (Bs % MaxB) + 1}
AdvVecs(B) == {[i \in 1..B |-> x] : x \in AdvVals}
              \cup {[i \in 1..B |-> IF i = 1 THEN 1 ELSE -1]}
ActVecs(B, A) == {[i \in 1..B |-> IF i = r THEN a ELSE 0] :
                    r \in {1, B}, a \in ActVals(A)}
JVecs(B) == {[i \in 1..B |-> x] : x \in JVals}
Ones(B) == [i \in 1..B |-> 1]
Zeros(B) == [i \in 1..B |-> 0]

UpdateInputs(B, A, theta, fwdOk) ==
    IF fwdOk
    THEN {[advantages |-> Ones(B), actions |-> c,
           lp |-> LogProbRegular(B, A, theta), J |-> Ones(B)] : c \in ActVecs(B, A)}
         \cup {[advantages |-> a, actions |-> Zeros(B), lp |-> l, J |-> j] :
                  a \in AdvVecs(B), l \in LogProbChoices(B, A, theta), j \in JVecs(B)}
    ELSE {[advantages |-> Ones(B), actions |-> Zeros(B),
           lp |-> LogProbRegular(B, A, theta), J |-> Ones(B)]}

\* The shapes of a call whose forward pass would return in the current
\* state.
ForwardOk(Bs, Bt, L) ==
    /\ bn.emb_bn.num_batches_tracked < MaxForward
    /\ PolicyNetwork_forward(n_act, bn, StateTensor(Bs), TripTensor(Bt, L)).status = "ok"

Next ==
    \/ \E Bs \in 1..MaxB, L \in 1..MaxL : \E Bt \in TripBatches(Bs) :
            predict(Bs, Bt, L)
    \/ \E Bs \in 1..MaxB, L \in 1..MaxL : \E Bt \in TripBatches(Bs) :
       \E in \in UpdateInputs(Bs, LogitsWidth(n_act), params["policy"],
                                ForwardOk(Bs, Bt, L)) :
            update(Bs, Bt, L, in.advantages, in.actions, in.lp, in.J)

Spec == Init /\ [][Next]_vars

\* ------------------------------------------- the gather step on its own
\* One row of the gather of lines 108-109, for batches up to just past the
\* largest integer range float32 holds exactly.
GatherBatches == {1, 2, 3, F32Exact + 2}
GatherRows == {0, 1, 2, F32Exact - 1, F32Exact, F32Exact + 1}

GatherInit ==
    /\ n_act \in 2..MaxNAct
    /\ params = [p \in ParamNames |-> Fin(0)]
    /\ grads = [p \in ParamNames |-> NoGrad]
    /\ optim = [p \in ParamNames |-> NewAdam]
    /\ bn = NewBn
    /\ ret = NoRet
    /\ calls = [predict |-> 0, update |-> 0, updateOk |-> 0]
    /\ g \in {[IdleGather EXCEPT !.B = b, !.A = LogitsWidth(n_act),
                                 !.row = r, !.act = a] :
                b \in GatherBatches, r \in GatherRows,
                a \in ActVals(LogitsWidth(n_act))}
    /\ g.row < g.B

GatherStep ==
    /\ ~g.done
    /\ g' = [g EXCEPT
            !.done = TRUE,
            !.ok = GatherOk(g.row, g.B, g.A, g.act),
            !.picked = IF GatherOk(g.row, g.B, g.A, g.act)
                       THEN GatherEntry(g.row, g.B, g.A, g.act) ELSE <<0, 0>>]
    /\ UNCHANGED <<n_act, params, grads, optim, bn, ret, calls>>

GatherSpec == GatherInit /\ [][GatherStep]_vars

\* ================================================================ claims

\* C1: in update, for every B >= 1, A >= 1 and actions[i] in [0, A), the
\* element gathered for row i at flat index i*A + actions[i] is exactly
\* log_probs[i, actions[i]]; no row reads another row's entry.
C1_GatherIsRowLookup ==
    (g.done /\ g.act \in 0..(g.A - 1)) =>
        (g.ok /\ g.picked = <<g.row, g.act>>)

\* C2: a predict call (one that returns) leaves the Parameters, the OptimizerState and the
\* normalization layers' running statistics and batch counters as they
\* were before the call.
C2_PredictMutatesNothing ==
    [][(calls'.predict = calls.predict + 1 /\ ret'.status = "ok") =>
        (params' = params /\ optim' = optim /\ bn' = bn)]_vars

\* C3 (as claimed): in every reachable estimator state, update with all
\* advantages 0 (and finite log-probabilities) returns loss 0 and leaves
\* every learnable Parameter unchanged.
C3_ZeroAdvantageNeutral ==
    [][(calls'.updateOk = calls.updateOk + 1 /\ ret'.advZero /\ ret'.lpFinite) =>
        (ret'.loss = Fin(0) /\ params' = params)]_vars

\* C3 (amended): update with all advantages 0 and finite log-probabilities
\* returns loss 0, and leaves unchanged every Parameter whose Adam
\* first-moment estimate was 0 before the call.
C3_ZeroAdvantageNeutralAtRest ==
    [][(calls'.updateOk = calls.updateOk + 1 /\ ret'.advZero /\ ret'.lpFinite) =>
        (/\ ret'.loss = Fin(0)
         /\ \A p \in ParamNames :
               ExpAvg(optim[p].exp_avg) = Fin(0) => params'[p] = params[p])]_vars

\* C3 witness: a second update, with zero advantages, has succeeded on an
\* estimator whose first moment was still 0, and the Parameters are where
\* they started.
C3_Witness ==
    /\ ret.op = "update" /\ ret.status = "ok" /\ ret.advZero /\ ret.lpFinite
    /\ optim["policy"].step = 2
    /\ ExpAvg(optim["policy"].exp_avg) = Fin(0)
    /\ params["policy"] = Fin(0)
    /\ n_act > 2

\* C4: the output row of predict for batch row i depends only on row i's
\* inputs, so a row stacked into a batch gets the result it gets alone.
C4_BatchIndependent ==
    (ret.op = "predict" /\ ret.status = "ok") =>
        /\ \A i \in 1..Len(ret.deps) : ret.deps[i] \subseteq {i - 1}
        /\ PolicyNetwork_forward(n_act, bn, StateTensor(1),
                                 TripTensor(1, ret.L)).status = "ok"

\* C5: an update call in which some action lies outside [0, A) fails with
\* an out-of-bounds error at the gather; it never completes normally.
C5_OutOfRangeRaises ==
    (ret.op = "update" /\ ret.oob /\ ret.shape # <<0, 0>>) =>
        ret.status = "IndexError"

\* C6: the distribution returned by predict on a batch of B rows has
\* exactly B rows and n_act - 1 columns.
C6_OutputWidth ==
    (ret.op = "predict" /\ ret.status = "ok") =>
        (ret.shape = <<ret.Bs, n_act - 1>> /\ Len(ret.deps) = ret.Bs)

\* C6 witness: predict has returned a [2, 2] distribution for n_act = 3.
C6_Witness ==
    /\ ret.op = "predict" /\ ret.status = "ok"
    /\ n_act = 3 /\ ret.Bs = 2 /\ ret.shape = <<2, 2>>

\* C7: a successful update does one forward pass, clears the gradients,
\* backpropagates once and steps the optimizer once, in this order; the
\* gradient stepped on is that of this call's loss alone, and the
\* optimizer's step count is the number of successful updates.
C7_UpdateSteps ==
    /\ (ret.op = "update" /\ ret.status = "ok") =>
          /\ ret.trace = <<"forward", "zero_grad", "backward", "step">>
          /\ grads["policy"].set
          /\ grads["policy"].of = {ret.k}
    /\ optim["policy"].step = calls.updateOk
    /\ bn.emb_bn.num_batches_tracked = calls.predict + calls.update

\* C7 witness: the second successful update has stepped on its own
\* gradient.
C7_Witness ==
    /\ ret.op = "update" /\ ret.status = "ok"
    /\ calls.updateOk = 2 /\ grads["policy"].of = {2}

\* C8: the self-attention output is a data-flow input of the network's
\* output (through h1, the feed-forward stage and the pooled vector).
C8_AttentionFlows ==
    (ret.op = "predict" /\ ret.status = "ok") => "mha" \in ret.via

\* C9: on a freshly constructed estimator, predict completes and returns a
\* [B, n_act - 1] result for every B >= 1 and L >= 1, B = L = 1 included.
C9_DefinedForAllLengths ==
    (ret.op = "predict" /\ calls.predict + calls.update = 1 /\ ret.Bs = ret.Bt) =>
        (ret.status = "ok" /\ ret.shape = <<ret.Bs, n_act - 1>>)

\* C10: an update call that fails in the forward pass, the gather or the
\* loss fails before gradients are cleared and before the optimizer step:
\* Parameters, OptimizerState and stored gradients are as before the call.
C10_FailureAtomic ==
    [][(calls'.update = calls.update + 1 /\ ret'.status # "ok") =>
        (/\ params' = params /\ optim' = optim /\ grads' = grads
         /\ ret'.trace = <<"forward">>)]_vars

\* C10 witness: an update has failed at the gather on an estimator that
\* holds the gradients and moments of an earlier successful update.
C10_Witness ==
    /\ ret.op = "update" /\ ret.status = "IndexError"
    /\ grads["policy"].set /\ optim["policy"].step = 1

====
